---- MODULE Spec2Model ----
(***************************************************************************)
(* CompletionEngine (src/python/completion_engine.py): the request payload *)
(* builder (cursor splitter, context windower, FIM encoder), the           *)
(* capability-fallback retry of complete(), and the stream adapter.        *)
(*                                                                         *)
(* Text is modelled as a sequence of one-character strings, so that        *)
(* slicing, joining, substring search and length are computed as Python    *)
(* computes them on str.  A document is a sequence of such lines.          *)
(***************************************************************************)
EXTENDS Integers, Sequences, FiniteSets, TLC

\* ------------------------------------------------------------------ bounds
\* Longest document (number of lines) handed to the builder.
MaxLines == 2
\* Most raw chunks a backend stream produces before it ends.
MaxChunks == 2

\* ------------------------------------------------- defaults of __init__
DefaultContextLinesBefore == 80
DefaultMaxPrefixChars == 8000
DefaultMaxSuffixChars == 3000

\* ------------------------------------------------------------ literals
NL == <<"\n">>
EmptyStr == <<>>
FIM_PREFIX ==
  <<"<", "|", "f", "i", "m", "_", "p", "r", "e", "f", "i", "x", "|", ">">>
FIM_SUFFIX ==
  <<"<", "|", "f", "i", "m", "_", "s", "u", "f", "f", "i", "x", "|", ">">>
FIM_MIDDLE ==
  <<"<", "|", "f", "i", "m", "_", "m", "i", "d", "d", "l", "e", "|", ">">>
TASK_HEADER ==
  <<"[", "A", "U", "T", "O", "C", "O", "M", "P", "L", "E", "T", "E", "_", "T", "A",
    "S", "K", "]", "\n", "R", "e", "t", "u", "r", "n", " ", "O", "N", "L", "Y", " ",
    "t", "h", "e", " ", "e", "x", "a", "c", "t", " ", "t", "e", "x", "t", " ", "t",
    "o", " ", "i", "n", "s", "e", "r", "t", " ", "a", "t", " ", "<", "C", "U", "R",
    "S", "O", "R", ">", ".", "\n", "D", "o", " ", "n", "o", "t", " ", "r", "e", "s",
    "t", "a", "t", "e", " ", "e", "x", "i", "s", "t", "i", "n", "g", " ", "t", "e",
    "x", "t", ".", " ", "D", "o", " ", "n", "o", "t", " ", "e", "x", "p", "l", "a",
    "i", "n", ".", " ", "D", "o", " ", "n", "o", "t", " ", "u", "s", "e", " ", "m",
    "a", "r", "k", "d", "o", "w", "n", " ", "f", "e", "n", "c", "e", "s", ".", "\n">>
FILETYPE_EQ ==
  <<"f", "i", "l", "e", "t", "y", "p", "e", "=">>
PLAIN ==
  <<"p", "l", "a", "i", "n">>
INDENTATION_EQ ==
  <<"i", "n", "d", "e", "n", "t", "a", "t", "i", "o", "n", "=">>
PREFIX_BEFORE_CURSOR ==
  <<"[", "P", "R", "E", "F", "I", "X", "_", "B", "E", "F", "O", "R", "E", "_", "C",
    "U", "R", "S", "O", "R", "]">>
CURRENT_LINE_PREFIX ==
  <<"[", "C", "U", "R", "R", "E", "N", "T", "_", "L", "I", "N", "E", "_", "P", "R",
    "E", "F", "I", "X", "]">>
CURRENT_LINE_SUFFIX ==
  <<"[", "C", "U", "R", "R", "E", "N", "T", "_", "L", "I", "N", "E", "_", "S", "U",
    "F", "F", "I", "X", "]">>
INSERT_AT_CURSOR ==
  <<"[", "I", "N", "S", "E", "R", "T", "_", "A", "T", "_", "C", "U", "R", "S", "O",
    "R", "]">>
SUFFIX_WORD ==
  <<"s", "u", "f", "f", "i", "x">>

\* ------------------------------------------------- Python str/list idioms
Min(a, b) == IF a < b THEN a ELSE b
Max(a, b) == IF a > b THEN a ELSE b

\* A slice index i of a sequence of length n, as Python resolves it:
\* a negative index counts from the end, and the result is clipped to 0..n.
SliceIndex(i, n) == IF i < 0 THEN Max(n + i, 0) ELSE Min(i, n)

\* s[a:], s[:b] and s[a:b].
PySliceFrom(s, a) == SubSeq(s, SliceIndex(a, Len(s)) + 1, Len(s))
PySliceTo(s, b) == SubSeq(s, 1, SliceIndex(b, Len(s)))
PySlice(s, a, b) == SubSeq(s, SliceIndex(a, Len(s)) + 1, SliceIndex(b, Len(s)))

\* sep.join(parts)
RECURSIVE str_join(_, _)
str_join(sep, parts) ==
  IF parts = <<>> THEN EmptyStr
  ELSE IF Len(parts) = 1 THEN parts[1]
  ELSE parts[1] \o sep \o str_join(sep, Tail(parts))

\* s.lstrip(chars)
RECURSIVE lstrip(_, _)
lstrip(s, chars) ==
  IF s # <<>> /\ s[1] \in chars THEN lstrip(Tail(s), chars) ELSE s

\* The positions at which sub occurs in s, and `sub in s`.
Occurrences(sub, s) ==
  {i \in 1..(Len(s) - Len(sub) + 1) : SubSeq(s, i, i + Len(sub) - 1) = sub}
Contains(sub, s) == Occurrences(sub, s) # {}

\* json.dumps of a str: quoted, with the quote, the backslash and the
\* control characters escaped.
RECURSIVE json_escape(_)
json_escape(s) ==
  IF s = <<>> THEN <<>>
  ELSE (CASE s[1] = "\"" -> <<"\\", "\"">>
          [] s[1] = "\\" -> <<"\\", "\\">>
          [] s[1] = "\n" -> <<"\\", "n">>
          [] s[1] = "\t" -> <<"\\", "t">>
          [] OTHER -> <<s[1]>>) \o json_escape(Tail(s))
json_dumps(s) == <<"\"">> \o json_escape(s) \o <<"\"">>

\* ------------------------------------------------------------------- state
VARIABLES
  model,                 \* self.model
  options,               \* self.options: the pass-through generation options
  fim_enabled,           \* self.fim_enabled
  fim_mode,              \* self.fim_mode
  context_lines_before,  \* self.context_lines_before
  max_prefix_chars,      \* self.max_prefix_chars
  max_suffix_chars,      \* self.max_suffix_chars
  debug,                 \* self.debug
  built,                 \* the last direct build_request_payload call and its result
  run,                   \* the complete() call in progress, its backend and its sink
  ideal                  \* the same call, fed the same inputs, with a sink that never fails

config == <<model, options, fim_enabled, fim_mode, context_lines_before,
            max_prefix_chars, max_suffix_chars, debug>>
vars == <<model, options, fim_enabled, fim_mode, context_lines_before,
          max_prefix_chars, max_suffix_chars, debug, built, run, ideal>>

\* ------------------------------------------------------------ the builder
\* _split_prefix_suffix: full-document prefix and suffix at the cursor, and
\* the indentation left of the cursor.  lines[k] of Python is lines[k + 1] here.
_split_prefix_suffix(lines, line, character) ==
  LET bounded_line == IF lines # <<>> THEN Max(0, Min(line, Len(lines) - 1)) ELSE 0
      current_line == IF lines # <<>> THEN lines[bounded_line + 1] ELSE EmptyStr
      bounded_character == Max(0, Min(character, Len(current_line)))
      left == PySliceTo(current_line, bounded_character)
      right == PySliceFrom(current_line, bounded_character)
      indent == PySliceTo(left, Len(left) - Len(lstrip(left, {" ", "\t"})))
      joined == str_join(NL, PySliceTo(lines, bounded_line))
      \* `if prefix` tests the joined text, not the number of lines joined
      prefix == IF joined # EmptyStr THEN joined \o NL \o left ELSE left
      suffix == IF bounded_line + 1 < Len(lines)
                THEN right \o NL \o str_join(NL, PySliceFrom(lines, bounded_line + 1))
                ELSE right
  IN  [prefix |-> prefix, suffix |-> suffix, indent |-> indent]

\* _centered_prefix: the cursor-local instruction block.
_centered_prefix(lines, line, character, filetype, indent) ==
  LET lines1 == IF lines = <<>> THEN <<EmptyStr>> ELSE lines
      bounded_line == Max(0, Min(line, Len(lines1) - 1))
      current_line == lines1[bounded_line + 1]
      bounded_character == Max(0, Min(character, Len(current_line)))
      start == Max(0, bounded_line - context_lines_before)
      before_lines == PySlice(lines1, start, bounded_line)
      line_prefix == PySliceTo(current_line, bounded_character)
      line_suffix == PySliceFrom(current_line, bounded_character)
      joined == str_join(NL, before_lines)
      before_text == IF Len(joined) > max_prefix_chars
                     THEN PySliceFrom(joined, 0 - max_prefix_chars)
                     ELSE joined
  IN  TASK_HEADER
      \o FILETYPE_EQ \o (IF filetype # EmptyStr THEN filetype ELSE PLAIN) \o NL
      \o INDENTATION_EQ \o json_dumps(indent) \o NL
      \o PREFIX_BEFORE_CURSOR \o NL
      \o before_text \o NL
      \o CURRENT_LINE_PREFIX \o NL
      \o line_prefix \o NL
      \o CURRENT_LINE_SUFFIX \o NL
      \o line_suffix \o NL
      \o INSERT_AT_CURSOR \o NL

\* _manual_fim_prompt: the sentinel-token wrapper; the suffix is bounded here.
_manual_fim_prompt(prefix, suffix) ==
  LET bounded_suffix == PySliceTo(suffix, max_suffix_chars)
  IN  FIM_PREFIX \o prefix \o FIM_SUFFIX \o bounded_suffix \o FIM_MIDDLE

\* A variant of the strategy test that forgets the capability-fallback flag.
use_template_fim_ignoring_force(force_manual_fim) ==
  fim_enabled /\ fim_mode \in {"auto", "template"}

\* use_template_fim of build_request_payload.
use_template_fim(force_manual_fim) ==
  fim_enabled /\ ~force_manual_fim /\ fim_mode \in {"auto", "template"}

\* build_request_payload: the request handed to client.generate.  A payload
\* is a record; its suffix field exists only when the native branch set it.
build_request_payload(lines, line, character, filetype, force_manual_fim) ==
  LET split == _split_prefix_suffix(lines, line, character)
      centered_prefix == _centered_prefix(lines, line, character, filetype, split.indent)
  IN  IF use_template_fim(force_manual_fim)
      THEN [model |-> model, stream |-> TRUE, options |-> options,
            prompt |-> PySliceFrom(split.prefix, 0 - max_prefix_chars),
            suffix |-> PySliceTo(split.suffix, max_suffix_chars)]
      ELSE IF fim_enabled
      THEN [model |-> model, stream |-> TRUE, options |-> options,
            prompt |-> _manual_fim_prompt(PySliceFrom(split.prefix, 0 - max_prefix_chars),
                                          split.suffix)]
      ELSE [model |-> model, stream |-> TRUE, options |-> options,
            prompt |-> centered_prefix \o NL]

\* ------------------------------------------------------------------ inputs
Lua ==
  <<"l", "u", "a">>
\* Lines a document is made of: an empty line, an indented line, and a line
\* that is itself a FIM sentinel.
IndentedLine == <<" ", "\t", "a", "b">>
LinePool == {EmptyStr, IndentedLine, FIM_SUFFIX}
Docs == UNION {[1..n -> LinePool] : n \in 0..MaxLines}
\* Cursor positions, in and out of range (the longest line has 14 characters).
CursorLines == -1..MaxLines
CursorColumns == {-1, 0, 1, 2, 20}
Filetypes == {EmptyStr, Lua}
FimModes == {"auto", "template", "manual"}
\* Character limits: none kept, a limit shorter than the text, the default.
PrefixLimits == {0, 2, DefaultMaxPrefixChars}
SuffixLimits == {0, 2, DefaultMaxSuffixChars}

\* ---------------------------------------------------- a complete() call
NoExc == [type |-> "None", msg |-> EmptyStr]
NoArgs == [lines |-> <<>>, line |-> 0, character |-> 0, filetype |-> EmptyStr]
\* No call yet: nothing submitted, no iterator, an empty sink.
\*   pc          where complete() is: "idle", "Initial" (first submission
\*               made), "Retried" (fallback submitted), "Done" (the adapter's
\*               iterator returned), "raised" (an exception left complete())
\*   submitted   the payloads handed to client.generate, in order
\*   replies     what client.generate did with each of them
\*   raised      the exception that left complete()
\*   it          the adapter's generator: "none", "suspended", "finished"
\*               (StopIteration), "failed" (an exception left it)
\*   backend     the backend stream: "none", "open", "ended", "errored"
\*   requested   next() calls the adapter made on the backend stream
\*   pulls       next() calls the consumer made on the adapter
\*   taken       the raw chunks the backend stream produced
\*   yielded     the chunks the consumer received
\*   it_raised   the exception the consumer saw while pulling
\*   log         the records the debug sink holds
IdleRun ==
  [pc |-> "idle", args |-> NoArgs, submitted |-> <<>>, replies |-> <<>>,
   raised |-> NoExc, it |-> "none", backend |-> "none", requested |-> 0,
   backend_exc |-> NoExc, pulls |-> 0, taken |-> <<>>, yielded |-> <<>>,
   it_raised |-> NoExc, log |-> <<>>]
NotBuilt == [called |-> FALSE]

\* __init__ with explicit character limits: the engines the payload builder
\* is exercised on.
InitBuild ==
  /\ model = "qwen2.5-coder:3b"
  /\ options = [num_predict |-> 128]
  /\ fim_enabled \in BOOLEAN
  /\ fim_mode \in FimModes
  /\ context_lines_before \in {0, DefaultContextLinesBefore}
  /\ max_prefix_chars \in PrefixLimits
  /\ max_suffix_chars \in SuffixLimits
  /\ debug = FALSE
  /\ built = NotBuilt
  /\ run = IdleRun
  /\ ideal = IdleRun

\* A direct call of build_request_payload (as payload_debug_demo.py makes);
\* the split it computes is kept beside the payload.  The builder is a pure
\* function of the engine and its arguments, so one call per behaviour
\* covers every call.
BuildRequestPayload(lines, line, character, filetype, force_manual_fim) ==
  /\ ~built.called
  /\ built' = [called |-> TRUE, lines |-> lines, line |-> line,
               character |-> character, filetype |-> filetype,
               force_manual_fim |-> force_manual_fim,
               split |-> _split_prefix_suffix(lines, line, character),
               payload |-> build_request_payload(lines, line, character, filetype,
                                                 force_manual_fim)]
  /\ UNCHANGED <<config, run, ideal>>

NextBuild ==
  /\ ~built.called
  /\ \E lines \in Docs, line \in CursorLines, character \in CursorColumns,
        filetype \in Filetypes, force_manual_fim \in BOOLEAN :
       BuildRequestPayload(lines, line, character, filetype, force_manual_fim)

SpecBuild == InitBuild /\ [][NextBuild]_vars

\* ------------------------------------------------ claims on the builder
HasSuffix(payload) == "suffix" \in DOMAIN payload
StartsWith(s, head) == PySliceTo(s, Len(head)) = head
EndsWith(s, tail) == Len(s) >= Len(tail) /\ SubSeq(s, Len(s) - Len(tail) + 1, Len(s)) = tail

\* C3: the prefix and the suffix returned by the cursor splitter concatenate
\* to the document's lines joined by "\n", for every document and cursor.
C3_SplitReconstructsDocument ==
  built.called =>
    built.split.prefix \o built.split.suffix = str_join(NL, built.lines)

\* C4: a payload built by the native template FIM branch has a prompt of at
\* most max_prefix_chars characters and a suffix of at most max_suffix_chars
\* characters, zero limits included.
C4_NativePayloadBounded ==
  (built.called /\ HasSuffix(built.payload)) =>
    /\ Len(built.payload.prompt) <= max_prefix_chars
    /\ Len(built.payload.suffix) <= max_suffix_chars

\* C6: the manual FIM prompt contains each of the three sentinel markers
\* exactly once, in the order prefix marker, suffix marker, middle marker.
C6_ManualPromptSentinelsOnce ==
  (built.called /\ fim_enabled /\ ~HasSuffix(built.payload)) =>
    LET prompt == built.payload.prompt
    IN  /\ Cardinality(Occurrences(FIM_PREFIX, prompt)) = 1
        /\ Cardinality(Occurrences(FIM_SUFFIX, prompt)) = 1
        /\ Cardinality(Occurrences(FIM_MIDDLE, prompt)) = 1
        /\ \A i \in Occurrences(FIM_PREFIX, prompt), j \in Occurrences(FIM_SUFFIX, prompt),
              k \in Occurrences(FIM_MIDDLE, prompt) : i < j /\ j < k

\* Some occurrence of each marker, each after the one before it.
MarkersInOrder(prompt) ==
  \E a \in Occurrences(PREFIX_BEFORE_CURSOR, prompt),
     b \in Occurrences(CURRENT_LINE_PREFIX, prompt),
     c \in Occurrences(CURRENT_LINE_SUFFIX, prompt),
     d \in Occurrences(INSERT_AT_CURSOR, prompt) : a < b /\ b < c /\ c < d

\* C7: with fim_enabled false the prompt ends with exactly one newline (the
\* character before it is not a newline) and holds the four section markers
\* in order.
C7_PlainPromptOneTrailingNewline ==
  (built.called /\ ~fim_enabled) =>
    LET prompt == built.payload.prompt
    IN  /\ Len(prompt) >= 2
        /\ prompt[Len(prompt)] = "\n"
        /\ prompt[Len(prompt) - 1] # "\n"
        /\ MarkersInOrder(prompt)

\* The shape of a payload, read off the payload alone.
IsNativeShape(payload) == HasSuffix(payload)
IsManualShape(payload) ==
  /\ ~HasSuffix(payload)
  /\ StartsWith(payload.prompt, FIM_PREFIX)
  /\ EndsWith(payload.prompt, FIM_MIDDLE)
IsPlainShape(payload) ==
  /\ ~HasSuffix(payload)
  /\ StartsWith(payload.prompt, TASK_HEADER)
  /\ EndsWith(payload.prompt, INSERT_AT_CURSOR \o NL \o NL)

\* C5: every payload has the shape of exactly one strategy, the one the
\* configuration selects; it has a suffix field iff fim_enabled, not
\* force_manual_fim and fim_mode is "auto" or "template"; and a payload built
\* with force_manual_fim has no suffix field.
C5_ExactlyOneStrategy ==
  built.called =>
    LET payload == built.payload
        native == fim_enabled /\ ~built.force_manual_fim
                  /\ fim_mode \in {"auto", "template"}
    IN  /\ HasSuffix(payload) <=> native
        /\ IsNativeShape(payload) <=> native
        /\ IsManualShape(payload) <=> (~native /\ fim_enabled)
        /\ IsPlainShape(payload) <=> ~fim_enabled
        /\ built.force_manual_fim => ~HasSuffix(payload)
        /\ DOMAIN payload \in {{"model", "stream", "options", "prompt"},
                               {"model", "stream", "options", "prompt", "suffix"}}

\* C5's case: the fallback flag overrides a configuration that would
\* otherwise use the native branch.
C5_Witness ==
  /\ built.called /\ built.force_manual_fim
  /\ fim_enabled /\ fim_mode = "auto"
  /\ IsManualShape(built.payload)
  /\ built.lines # <<>>

\* ------------------------------------------------- backend and debug sink
MsgUnexpectedSuffix ==
  <<"g", "o", "t", " ", "a", "n", " ", "u", "n", "e", "x", "p", "e", "c", "t", "e",
    "d", " ", "k", "e", "y", "w", "o", "r", "d", " ", "a", "r", "g", "u", "m", "e",
    "n", "t", " ", "'", "s", "u", "f", "f", "i", "x", "'">>
MsgUnexpectedImages ==
  <<"g", "o", "t", " ", "a", "n", " ", "u", "n", "e", "x", "p", "e", "c", "t", "e",
    "d", " ", "k", "e", "y", "w", "o", "r", "d", " ", "a", "r", "g", "u", "m", "e",
    "n", "t", " ", "'", "i", "m", "a", "g", "e", "s", "'">>
MsgModelNoSuffix ==
  <<"m", "o", "d", "e", "l", " ", "d", "o", "e", "s", " ", "n", "o", "t", " ", "s",
    "u", "p", "p", "o", "r", "t", " ", "s", "u", "f", "f", "i", "x">>
MsgConnection ==
  <<"c", "o", "n", "n", "e", "c", "t", "i", "o", "n", " ", "r", "e", "f", "u", "s",
    "e", "d">>
MsgLogUnwritable == <<"l", "o", "g">>

Accepted == [type |-> "ok", msg |-> EmptyStr]
TypeErrorSuffix == [type |-> "TypeError", msg |-> MsgUnexpectedSuffix]
TypeErrorImages == [type |-> "TypeError", msg |-> MsgUnexpectedImages]
ResponseErrorSuffix == [type |-> "ResponseError", msg |-> MsgModelNoSuffix]
ConnectionError == [type |-> "ConnectionError", msg |-> MsgConnection]
SinkError == [type |-> "OSError", msg |-> MsgLogUnwritable]
\* What client.generate may raise, and what the stream it returned may raise
\* while it is iterated.
BackendErrors == {TypeErrorSuffix, TypeErrorImages, ResponseErrorSuffix, ConnectionError}
StreamErrors == {TypeErrorSuffix, ConnectionError}

\* Raw chunks.  A dict is a record of its keys; any other object is a record
\* with a py_class field, one field per method it has (holding what the
\* method returns) and its str().
DictChunk == [response |-> "a", done |-> FALSE]
ModelChunk ==
  [py_class |-> "GenerateResponse", str |-> "response='b'",
   model_dump |-> [response |-> "b", done |-> FALSE],
   dict |-> [response |-> "b", done |-> FALSE, deprecated |-> TRUE]]
LegacyChunk ==
  [py_class |-> "LegacyResponse", str |-> "<LegacyResponse>",
   dict |-> [response |-> "c", done |-> TRUE]]
OpaqueChunk == [py_class |-> "str", str |-> "d"]
ChunkPool == {DictChunk, ModelChunk, LegacyChunk, OpaqueChunk}

isinstance_dict(obj) == "py_class" \notin DOMAIN obj
hasattr(obj, name) == "py_class" \in DOMAIN obj /\ name \in DOMAIN obj

\* _normalize_chunk
_normalize_chunk(chunk) ==
  IF isinstance_dict(chunk) THEN chunk
  ELSE IF hasattr(chunk, "model_dump") THEN chunk.model_dump
  ELSE IF hasattr(chunk, "dict") THEN chunk.dict
  ELSE [response |-> chunk.str]

\* A sink whose failure escapes to the caller.
_debug_log_propagating(log, event, payload, sink_ok) ==
  IF ~debug THEN [log |-> log, exc |-> NoExc]
  ELSE IF sink_ok
       THEN [log |-> Append(log, [event |-> event, payload |-> payload]), exc |-> NoExc]
       ELSE [log |-> log, exc |-> SinkError]

\* _debug_log: appends one record to the sink when debug is on.  sink_ok is
\* whether open/json.dumps/write succeed; a failure is caught and dropped.
\* The result is the sink's content and the exception the call raised.
_debug_log(log, event, payload, sink_ok) ==
  IF ~debug THEN [log |-> log, exc |-> NoExc]
  ELSE LET serializable_payload ==
             IF hasattr(payload, "model_dump") THEN payload.model_dump
             ELSE IF hasattr(payload, "dict") THEN payload.dict
             ELSE payload
       IN  IF sink_ok
           THEN [log |-> Append(log, [event |-> event, payload |-> serializable_payload]),
                 exc |-> NoExc]
           ELSE [log |-> log, exc |-> NoExc]

\* `except TypeError` without the test of the message.
IsAnyTypeError(exc) == exc.type = "TypeError"
\* The test of the message under `except Exception`.
MentionsSuffix(exc) == Contains(SUFFIX_WORD, exc.msg)

\* The except clause of complete(): a TypeError whose str() contains "suffix".
IsSuffixCapabilityError(exc) ==
  exc.type = "TypeError" /\ Contains(SUFFIX_WORD, exc.msg)

\* ------------------------------------------------------------- complete()
\* Entry of complete(): build the payload, log it, submit it.
complete_call(r, args, sink_ok) ==
  LET payload == build_request_payload(args.lines, args.line, args.character,
                                       args.filetype, FALSE)
      logged == _debug_log(r.log, "payload", payload, sink_ok)
  IN  IF r.pc # "idle" THEN r
      ELSE IF logged.exc # NoExc
      THEN [r EXCEPT !.pc = "raised", !.args = args, !.log = logged.log,
                     !.raised = logged.exc]
      ELSE [r EXCEPT !.pc = "Initial", !.args = args, !.log = logged.log,
                     !.submitted = Append(@, payload)]

\* client.generate returned a stream: complete() returns _debug_stream(stream),
\* a generator that has not run yet.
generate_returns(r) ==
  IF r.pc \notin {"Initial", "Retried"} THEN r
  ELSE [r EXCEPT !.pc = "Done", !.replies = Append(@, Accepted),
                 !.it = "suspended", !.backend = "open"]

\* An except clause that turns every failure into an empty stream.
generate_raises_swallowing(r, exc, sink_ok) ==
  IF r.pc \notin {"Initial", "Retried"} THEN r
  ELSE [r EXCEPT !.pc = "Done", !.replies = Append(@, exc),
                 !.it = "finished", !.backend = "ended"]

\* client.generate raised exc.  On the first submission a suffix capability
\* error is caught: the payload is rebuilt with force_manual_fim, logged and
\* resubmitted.  Anything else, and anything on the second submission (which
\* is made inside the except clause), leaves complete().
generate_raises(r, exc, sink_ok) ==
  IF r.pc = "Initial" /\ IsSuffixCapabilityError(exc)
  THEN LET fallback_payload ==
             build_request_payload(r.args.lines, r.args.line, r.args.character,
                                   r.args.filetype, TRUE)
           logged == _debug_log(r.log, "payload_fallback", fallback_payload, sink_ok)
       IN  IF logged.exc # NoExc
           THEN [r EXCEPT !.pc = "raised", !.replies = Append(@, exc),
                          !.log = logged.log, !.raised = logged.exc]
           ELSE [r EXCEPT !.pc = "Retried", !.replies = Append(@, exc),
                          !.log = logged.log,
                          !.submitted = Append(@, fallback_payload)]
  ELSE IF r.pc \in {"Initial", "Retried"}
  THEN [r EXCEPT !.pc = "raised", !.replies = Append(@, exc), !.raised = exc]
  ELSE r

\* ------------------------------------------------- _debug_stream.iterator
\* A loop that skips chunks that are not dicts, asking the stream again.
iterator_yields_skipping(r, chunk, sink_ok) ==
  IF ~(r.pc = "Done" /\ r.it = "suspended") THEN r
  ELSE IF isinstance_dict(chunk)
  THEN [r EXCEPT !.pulls = @ + 1, !.requested = @ + 1,
                 !.taken = Append(@, chunk), !.yielded = Append(@, chunk)]
  ELSE [r EXCEPT !.requested = @ + 1, !.taken = Append(@, chunk)]

\* One pull by the consumer when the backend stream produces a chunk: the
\* loop takes it, normalizes it, logs it when debug is on, and yields it.
iterator_yields(r, chunk, sink_ok) ==
  IF ~(r.pc = "Done" /\ r.it = "suspended") THEN r
  ELSE LET normalized_chunk == _normalize_chunk(chunk)
           logged == IF debug
                     THEN _debug_log(r.log, "raw_chunk", normalized_chunk, sink_ok)
                     ELSE [log |-> r.log, exc |-> NoExc]
       IN  IF logged.exc # NoExc
           THEN [r EXCEPT !.pulls = @ + 1, !.requested = @ + 1,
                          !.taken = Append(@, chunk), !.log = logged.log,
                          !.it = "failed", !.it_raised = logged.exc]
           ELSE [r EXCEPT !.pulls = @ + 1, !.requested = @ + 1,
                          !.taken = Append(@, chunk), !.log = logged.log,
                          !.yielded = Append(@, normalized_chunk)]

\* One pull when the backend stream is exhausted: the loop ends and the
\* generator returns.
iterator_stops(r) ==
  IF ~(r.pc = "Done" /\ r.it = "suspended") THEN r
  ELSE [r EXCEPT !.pulls = @ + 1, !.requested = @ + 1, !.backend = "ended",
                 !.it = "finished"]

\* One pull when the backend stream raises: nothing in the generator catches
\* it, so it leaves the generator and reaches the consumer.
iterator_raises(r, exc) ==
  IF ~(r.pc = "Done" /\ r.it = "suspended") THEN r
  ELSE [r EXCEPT !.pulls = @ + 1, !.requested = @ + 1, !.backend = "errored",
                 !.backend_exc = exc, !.it = "failed", !.it_raised = exc]

\* ----------------------------------------------------------------- actions
\* The documents and cursors complete() is called with.
CallDocs ==
  {<<>>, <<IndentedLine>>, <<EmptyStr, IndentedLine>>, <<FIM_SUFFIX, IndentedLine>>}
CallLines == {0, 1}
CallColumns == {3}

\* __init__ with the default limits.
Init ==
  /\ model = "qwen2.5-coder:3b"
  /\ options = [num_predict |-> 128]
  /\ fim_enabled \in BOOLEAN
  /\ fim_mode \in FimModes
  /\ context_lines_before = DefaultContextLinesBefore
  /\ max_prefix_chars = DefaultMaxPrefixChars
  /\ max_suffix_chars = DefaultMaxSuffixChars
  /\ debug \in BOOLEAN
  /\ built = NotBuilt
  /\ run = IdleRun
  /\ ideal = IdleRun

\* The caller invokes complete(lines, line, character, filetype).
Complete(lines, line, character, filetype) ==
  LET args == [lines |-> lines, line |-> line, character |-> character,
               filetype |-> filetype]
  IN  /\ run.pc = "idle"
      /\ \E sink_ok \in BOOLEAN : run' = complete_call(run, args, sink_ok)
      /\ ideal' = complete_call(ideal, args, TRUE)
      /\ UNCHANGED <<config, built>>

\* The backend accepts the pending submission.
GenerateReturns ==
  /\ run.pc \in {"Initial", "Retried"}
  /\ run' = generate_returns(run)
  /\ ideal' = generate_returns(ideal)
  /\ UNCHANGED <<config, built>>

\* The backend rejects the pending submission with exc.
GenerateRaises(exc) ==
  /\ run.pc \in {"Initial", "Retried"}
  /\ \E sink_ok \in BOOLEAN : run' = generate_raises(run, exc, sink_ok)
  /\ ideal' = generate_raises(ideal, exc, TRUE)
  /\ UNCHANGED <<config, built>>

\* The consumer pulls and the backend stream produces chunk.
IteratorYields(chunk) ==
  /\ run.pc = "Done" /\ run.it = "suspended"
  /\ Len(run.taken) < MaxChunks
  /\ \E sink_ok \in BOOLEAN : run' = iterator_yields(run, chunk, sink_ok)
  /\ ideal' = iterator_yields(ideal, chunk, TRUE)
  /\ UNCHANGED <<config, built>>

\* The consumer pulls and the backend stream has ended.
IteratorStops ==
  /\ run.pc = "Done" /\ run.it = "suspended"
  /\ run' = iterator_stops(run)
  /\ ideal' = iterator_stops(ideal)
  /\ UNCHANGED <<config, built>>

\* The consumer pulls and the backend stream raises exc.
IteratorRaises(exc) ==
  /\ run.pc = "Done" /\ run.it = "suspended"
  /\ run' = iterator_raises(run, exc)
  /\ ideal' = iterator_raises(ideal, exc)
  /\ UNCHANGED <<config, built>>

Next ==
  \/ /\ run.pc = "idle"
     /\ \E lines \in CallDocs, line \in CallLines, character \in CallColumns :
          Complete(lines, line, character, EmptyStr)
  \/ GenerateReturns
  \/ \E exc \in BackendErrors : GenerateRaises(exc)
  \/ \E chunk \in ChunkPool : IteratorYields(chunk)
  \/ IteratorStops
  \/ \E exc \in StreamErrors : IteratorRaises(exc)

Spec == Init /\ [][Next]_vars

\* ------------------------------------------------- claims on complete()
LastReply == run.replies[Len(run.replies)]
RebuiltWith(force_manual_fim) ==
  build_request_payload(run.args.lines, run.args.line, run.args.character,
                        run.args.filetype, force_manual_fim)

\* C1: the backend is submitted to at most twice per call; a second
\* submission exists iff the first one raised a TypeError whose message
\* mentions "suffix", and it carries the payload rebuilt with
\* force_manual_fim for the same document, cursor and filetype (so it has no
\* suffix field).
C1_AtMostOneRetry ==
  /\ Len(run.submitted) <= 2
  /\ Len(run.replies) <= Len(run.submitted)
  /\ Len(run.submitted) = 2 <=>
       /\ Len(run.replies) >= 1
       /\ run.replies[1].type = "TypeError"
       /\ Contains(SUFFIX_WORD, run.replies[1].msg)
  /\ Len(run.submitted) >= 1 => run.submitted[1] = RebuiltWith(FALSE)
  /\ Len(run.submitted) = 2 =>
       /\ run.submitted[2] = RebuiltWith(TRUE)
       /\ ~HasSuffix(run.submitted[2])
       /\ IF fim_enabled THEN IsManualShape(run.submitted[2])
                         ELSE IsPlainShape(run.submitted[2])

\* C1's case: a native payload was rejected for its suffix field, the manual
\* payload was accepted.
C1_Witness ==
  /\ run.pc = "Done"
  /\ Len(run.submitted) = 2
  /\ HasSuffix(run.submitted[1])
  /\ run.replies = <<TypeErrorSuffix, Accepted>>

\* C2: an error on the first submission that is not a TypeError mentioning
\* "suffix", and any error on the retried submission, leaves complete() as
\* that same error, with no further submission and no stream returned.
C2_OtherErrorsPropagate ==
  LET n == Len(run.replies)
      matches(exc) == exc.type = "TypeError" /\ Contains(SUFFIX_WORD, exc.msg)
  IN  /\ (n >= 1 /\ run.replies[1] # Accepted /\ ~matches(run.replies[1])) =>
           /\ run.pc = "raised" /\ run.raised = run.replies[1]
           /\ Len(run.submitted) = 1 /\ n = 1
           /\ run.it = "none" /\ run.yielded = <<>>
      /\ (n = 2 /\ run.replies[2] # Accepted) =>
           /\ run.pc = "raised" /\ run.raised = run.replies[2]
           /\ Len(run.submitted) = 2
           /\ run.it = "none" /\ run.yielded = <<>>
      /\ run.pc = "raised" =>
           /\ n >= 1 /\ run.raised = LastReply /\ LastReply # Accepted
           /\ Len(run.submitted) = n

\* C2's case: the retried submission failed too, with an error that would
\* have been caught on the first submission.
C2_Witness ==
  /\ run.pc = "raised"
  /\ run.replies = <<TypeErrorSuffix, TypeErrorSuffix>>
  /\ run.raised = TypeErrorSuffix

\* What the caller and the backend can observe of a call.
Observable(r) ==
  [pc |-> r.pc, submitted |-> r.submitted, raised |-> r.raised, it |-> r.it,
   yielded |-> r.yielded, it_raised |-> r.it_raised, requested |-> r.requested]

\* C8: with debug on, a failed write to the sink (payload record,
\* fallback-payload record or chunk record) never raises to the caller and
\* never changes the run: submissions and yielded chunks are those of the
\* same run with a sink that always succeeds.
C8_SinkFailuresInvisible ==
  debug =>
    /\ run.raised # SinkError
    /\ run.it_raised # SinkError
    /\ Observable(run) = Observable(ideal)

\* C8's case: all three kinds of write failed in a call that retried and
\* streamed a chunk.
C8_Witness ==
  /\ debug
  /\ run.log = <<>>
  /\ Len(ideal.log) = 3
  /\ Len(run.submitted) = 2
  /\ Len(run.yielded) = 1

\* What the adapter owes the consumer for a raw chunk.
NormalFormOf(chunk) ==
  IF "py_class" \notin DOMAIN chunk THEN chunk
  ELSE IF "model_dump" \in DOMAIN chunk THEN chunk.model_dump
  ELSE IF "dict" \in DOMAIN chunk THEN chunk.dict
  ELSE [response |-> chunk.str]

\* C9: the adapter is lazy, single-pass, order-preserving and one-to-one:
\* after k chunks were pulled it has taken exactly k raw chunks, the i-th
\* yielded chunk is the normal form of the i-th raw chunk (a dict is yielded
\* unchanged), and it ends exactly when the backend stream ends.
C9_LazyOneToOne ==
  /\ run.requested = run.pulls
  /\ Len(run.taken) = Len(run.yielded)
  /\ run.pulls = Len(run.yielded) + (IF run.it \in {"finished", "failed"} THEN 1 ELSE 0)
  /\ \A i \in 1..Len(run.yielded) : run.yielded[i] = NormalFormOf(run.taken[i])
  /\ \A i \in 1..Len(run.yielded) :
       "py_class" \notin DOMAIN run.taken[i] => run.yielded[i] = run.taken[i]
  /\ run.it = "finished" <=> run.backend = "ended"

\* C9's case: a converted chunk and a dict were pulled, in that order, and
\* the stream then ended.
C9_Witness ==
  /\ run.taken = <<ModelChunk, DictChunk>>
  /\ Len(run.yielded) = 2
  /\ run.it = "finished"

\* C10 as stated: the call ends in a stream or in the original backend
\* error, and a caller that has received a chunk never afterwards sees a
\* backend error.
C10_NoErrorAfterChunks ==
  /\ run.pc = "Done" => (run.raised = NoExc /\ LastReply = Accepted)
  /\ run.pc = "raised" => (run.raised = LastReply /\ run.it = "none")
  /\ Len(run.yielded) >= 1 => run.it_raised = NoExc

\* C10 as amended: complete() itself ends either by returning the stream
\* (after an accepted submission, possibly the retried one) or by raising
\* the backend's own error with no stream; an error the backend stream
\* raises while it is iterated is not caught by the adapter and reaches the
\* consumer at that pull, after the chunks already delivered.
C10_SubmissionAllOrNothing ==
  /\ run.pc \in {"idle", "Initial", "Retried"} =>
       (run.raised = NoExc /\ run.it = "none")
  /\ run.pc = "Done" =>
       /\ run.raised = NoExc /\ LastReply = Accepted /\ run.it # "none"
       /\ \A i \in 1..(Len(run.replies) - 1) : run.replies[i] # Accepted
  /\ run.pc = "raised" =>
       /\ run.raised = LastReply /\ run.raised \in BackendErrors
       /\ run.it = "none" /\ run.yielded = <<>>
  /\ run.it_raised # NoExc <=> run.backend = "errored"
  /\ run.backend = "errored" =>
       /\ run.it = "failed" /\ run.it_raised = run.backend_exc
       /\ run.yielded = [i \in 1..Len(run.taken) |-> NormalFormOf(run.taken[i])]

\* C10's case: after a silent retry the consumer got a chunk, and the next
\* pull raised the backend stream's error.
C10_Witness ==
  /\ Len(run.submitted) = 2
  /\ Len(run.yielded) >= 1
  /\ run.it = "failed"
  /\ run.it_raised = ConnectionError
====
